---- MODULE Spec2Model ----
(***************************************************************************)
(* Conway's Game of Life on Bevy (src/src/main.rs, src/src/grid.rs).       *)
(*                                                                         *)
(* The GridCell entities live in one archetype table; `cells` is that      *)
(* table in row order, which is the order Query::iter visits them.  The    *)
(* Startup schedule runs `setup`; every frame the Update schedule runs     *)
(* update_grid_cell, update_grid_visuals and reset_game in an order the    *)
(* scheduler picks, and the queued Commands are applied when the schedule  *)
(* has run all its systems.                                                *)
(***************************************************************************)
EXTENDS Integers, Sequences, FiniteSets, TLC

VARIABLES
    config,                 \* GameConfig resource: width, height, initial_dencity
    cells,                  \* GridCell entities (with their Sprite) in table row order
    next_entity,            \* next free Entity id
    commands,               \* deferred Commands queued by the systems of the running schedule
    timer,                  \* GridUpdateTimer: elapsed, times_finished_this_tick
    delta,                  \* Time::delta() of the current frame, in milliseconds
    interaction,            \* Interaction of the ResetButton and its Changed flag
    schedule,               \* "Startup" or "Update"
    sysToRun,               \* systems of the schedule that have not yet run
    panic,                  \* "none", or the call that panicked
    pc,                     \* position inside update_grid_cell when run loop by loop
    next_generation_state   \* the Vec<bool> local of update_grid_cell

vars == <<config, cells, next_entity, commands, timer, delta, interaction,
          schedule, sysToRun, panic, pc, next_generation_state>>

----------------------------------------------------------------------------
(* Bounds of the model *)

\* the application model (Spec): grids of at most MaxCells cells
MaxCells == 3
\* the application model: number of Reset presses that respawn the grid
MaxResets == 1
\* single advances on arbitrary grids (SpecAdvance): at most MaxAdvanceCells cells,
\* at most MaxAdvanceSide in each dimension
MaxAdvanceCells == 12
MaxAdvanceSide == 4
\* update_grid_cell run loop by loop (SpecLoop): grids of at most MaxLoopCells cells
MaxLoopCells == 6
\* block still-life grids (SpecBlock): 4..MaxBlockDim in each dimension
MaxBlockDim == 5
\* blinker grids (SpecBlinker): 5..MaxBlinkerDim in each dimension
MaxBlinkerDim == 6

----------------------------------------------------------------------------
(* Program constants *)

\* main.rs:191 update_interval_millis
update_interval_millis == 100

\* initial_dencity is an f64; the model keeps it in tenths (3 is 0.3)
DensityOne == 10

\* frame times offered to a frame: half an interval, two intervals and a half
Deltas == {50, 250}

\* densities offered to GameConfig: -0.5, 0.0, 0.3 (main.rs:190), 1.0, 1.5
Densities == {-5, 0, 3, 10, 15}

Interactions == {"None", "Hovered", "Pressed"}

UpdateSystems == {"update_grid_cell", "update_grid_visuals", "reset_game"}

StartupSystems == {"setup"}

----------------------------------------------------------------------------
(* grid.rs *)

\* GridCell::new(x, y, is_alive), spawned together with a BLACK sprite
GridCell_new(x, y, is_alive) ==
    [x |-> x, y |-> y, is_alive |-> is_alive]

----------------------------------------------------------------------------
(* rand::Rng::gen_bool *)

\* gen_bool(p) panics when p is outside [0, 1]
GenBoolPanics(p) == p < 0 \/ p > DensityOne

\* the values gen_bool(p) can return: p = 0 never true, p = 1 always true
GenBoolOutcomes(p) ==
    IF p = 0 THEN {FALSE}
    ELSE IF p = DensityOne THEN {TRUE}
    ELSE BOOLEAN

----------------------------------------------------------------------------
(* spawn_grid *)

NumCells(cfg) == cfg.width * cfg.height

\* the k-th (1-based) iteration of `for x in 0..width { for y in 0..height`
LoopX(cfg, k) == (k - 1) \div cfg.height
LoopY(cfg, k) == (k - 1) % cfg.height

\* spawn_grid panics at its first gen_bool call, if it makes one
spawn_grid_panics(cfg) ==
    NumCells(cfg) > 0 /\ GenBoolPanics(cfg.initial_dencity)

\* the outcome of gen_bool negated
spawn_grid_negated(cfg, bits, first) ==
    [k \in 1..NumCells(cfg) |->
        [op |-> "spawn",
         entity |-> first + k - 1,
         cell |-> GridCell_new(LoopX(cfg, k), LoopY(cfg, k), ~bits[k]),
         color |-> "BLACK"]]

\* the spawn commands spawn_grid queues, bits being the outcomes of gen_bool;
\* Commands::spawn reserves the entity id at the call
spawn_grid(cfg, bits, first) ==
    [k \in 1..NumCells(cfg) |->
        [op |-> "spawn",
         entity |-> first + k - 1,
         cell |-> GridCell_new(LoopX(cfg, k), LoopY(cfg, k), bits[k]),
         color |-> "BLACK"]]

RngOutcomes(cfg) == [1..NumCells(cfg) -> GenBoolOutcomes(cfg.initial_dencity)]

----------------------------------------------------------------------------
(* Commands applied at the end of a schedule *)

RECURSIVE IndexOfEntity(_, _, _)
IndexOfEntity(store, e, i) ==
    IF i > Len(store) THEN 0
    ELSE IF store[i].entity = e THEN i
    ELSE IndexOfEntity(store, e, i + 1)

\* Table::swap_remove: the last row moves into the freed row
SwapRemove(store, i) ==
    LET n == Len(store)
    IN  [j \in 1..(n - 1) |-> IF j = i THEN store[n] ELSE store[j]]

ApplyCommand(store, cmd) ==
    IF cmd.op = "despawn"
    THEN LET i == IndexOfEntity(store, cmd.entity, 1)
         IN  IF i = 0 THEN store ELSE SwapRemove(store, i)
    ELSE Append(store, [entity |-> cmd.entity,
                        x |-> cmd.cell.x,
                        y |-> cmd.cell.y,
                        is_alive |-> cmd.cell.is_alive,
                        color |-> cmd.color,
                        changed |-> TRUE])

RECURSIVE ApplyCommands(_, _)
ApplyCommands(store, cmds) ==
    IF cmds = <<>> THEN store
    ELSE ApplyCommands(ApplyCommand(store, Head(cmds)), Tail(cmds))

----------------------------------------------------------------------------
(* update_grid_cell *)

\* isize % isize: the remainder has the sign of the dividend
TruncRem(a, b) == IF a >= 0 THEN a % b ELSE 0 - ((0 - a) % b)

\* isize::rem_euclid for a positive modulus
rem_euclid(a, b) ==
    LET r == TruncRem(a, b)
    IN  IF r < 0 THEN r + b ELSE r

\* `for dy in -1..=1 { for dx in -1..=1 { if (dx, dy) == (0, 0) { continue; }`
Offsets ==
    {o \in (-1..1) \X (-1..1) : o # <<0, 0>>}

\* nx wrapped by the height instead of the width
neighbor_nx_mod_height(cfg, cell, o) == rem_euclid(cell.x + o[1], cfg.height)

neighbor_nx(cfg, cell, o) == rem_euclid(cell.x + o[1], cfg.width)
neighbor_ny(cfg, cell, o) == rem_euclid(cell.y + o[2], cfg.height)

\* the row stride taken from the height instead of the width
neighbor_index_by_height(cfg, cell, o) ==
    neighbor_ny(cfg, cell, o) * cfg.height + neighbor_nx(cfg, cell, o)

\* the argument of query.iter().nth(..) for cell and offset o = <<dx, dy>>
neighbor_index(cfg, cell, o) ==
    neighbor_ny(cfg, cell, o) * cfg.width + neighbor_nx(cfg, cell, o)

\* Iterator::nth(k) is None when k is not below the length
NthIsNone(store, k) == k >= Len(store)

\* some .nth(..).unwrap() of the pass panics
unwrap_panics(cfg, store) ==
    \E i \in 1..Len(store) : \E o \in Offsets :
        NthIsNone(store, neighbor_index(cfg, store[i], o))

\* the neighbours counted from what is displayed, the sprite of the last refresh
number_of_neighbor_alive_by_color(cfg, store, i) ==
    Cardinality({o \in Offsets :
                    store[neighbor_index(cfg, store[i], o) + 1].color = "WHITE"})

\* every neighbouring cell counted once, however many offsets reach it
number_of_neighbor_alive_distinct(cfg, store, i) ==
    Cardinality({k \in {neighbor_index(cfg, store[i], o) : o \in Offsets} :
                    store[k + 1].is_alive})

\* number_of_neighbor_alive of the i-th visited cell, one read per offset
number_of_neighbor_alive(cfg, store, i) ==
    Cardinality({o \in Offsets :
                    store[neighbor_index(cfg, store[i], o) + 1].is_alive})

\* the birth arm written as `(false, _)`
next_state_any_birth(is_alive, n) ==
    IF is_alive /\ (n = 2 \/ n = 3) THEN TRUE
    ELSE IF ~is_alive THEN TRUE
    ELSE FALSE

\* match (cell.is_alive, number_of_neighbor_alive)
next_state(is_alive, n) ==
    IF is_alive /\ (n = 2 \/ n = 3) THEN TRUE
    ELSE IF ~is_alive /\ n = 3 THEN TRUE
    ELSE FALSE

\* the value pushed for the i-th visited cell
pushed_state(cfg, store, i) ==
    next_state(store[i].is_alive, number_of_neighbor_alive(cfg, store, i))

\* next_generation_state after the first loop has visited every cell
compute_next_generation(cfg, store) ==
    [i \in 1..Len(store) |-> pushed_state(cfg, store, i)]

\* the whole component overwritten: `*cell = GridCell::new(0, 0, value)`
write_cell_at_origin(cell, value) ==
    [cell EXCEPT !.x = 0, !.y = 0, !.is_alive = value, !.changed = TRUE]

\* the write made behind change detection: `cell.bypass_change_detection()`
write_cell_untracked(cell, value) ==
    [cell EXCEPT !.is_alive = value]

\* `cell.is_alive = next_generation_state[i]`; DerefMut marks the cell changed
write_cell(cell, value) ==
    [cell EXCEPT !.is_alive = value, !.changed = TRUE]

\* `for (i, mut cell) in query.iter_mut().enumerate()`
write_back(store, next) ==
    [i \in 1..Len(store) |-> write_cell(store[i], next[i])]

\* Timer::tick for TimerMode::Repeating
timer_tick(t, d) ==
    LET e == t.elapsed + d
    IN  IF e >= update_interval_millis
        THEN [elapsed |-> e % update_interval_millis,
              times_finished_this_tick |-> e \div update_interval_millis]
        ELSE [elapsed |-> e, times_finished_this_tick |-> 0]

just_finished(t) == t.times_finished_this_tick > 0

----------------------------------------------------------------------------
(* State after construction: main() inserts the resources, nothing has run *)

Dims ==
    {d \in (0..MaxCells) \X (0..MaxCells) : d[1] * d[2] <= MaxCells}

GameConfig(w, h, p) == [width |-> w, height |-> h, initial_dencity |-> p]

Init ==
    /\ config \in {GameConfig(d[1], d[2], p) : d \in Dims, p \in Densities}
    /\ cells = <<>>
    /\ next_entity = 0
    /\ commands = <<>>
    /\ timer = [elapsed |-> 0, times_finished_this_tick |-> 0]
    /\ delta = 0
    /\ interaction = [value |-> "None", changed |-> TRUE]
    /\ schedule = "Startup"
    /\ sysToRun = StartupSystems
    /\ panic = "none"
    /\ pc = [loop |-> "idle", i |-> 0]
    /\ next_generation_state = <<>>

----------------------------------------------------------------------------
(* Systems, each run as one step *)

Runs(sched, sys) ==
    /\ panic = "none"
    /\ schedule = sched
    /\ sys \in sysToRun
    /\ pc.loop = "idle"

\* setup: spawn_grid into the Startup schedule's Commands
setup ==
    /\ Runs("Startup", "setup")
    /\ IF spawn_grid_panics(config)
       THEN /\ panic' = "gen_bool"
            /\ UNCHANGED <<commands, next_entity, sysToRun>>
       ELSE /\ \E bits \in RngOutcomes(config) :
                  commands' = commands \o spawn_grid(config, bits, next_entity)
            /\ next_entity' = next_entity + NumCells(config)
            /\ sysToRun' = sysToRun \ {"setup"}
            /\ panic' = panic
    /\ UNCHANGED <<config, cells, timer, delta, interaction, schedule, pc,
                   next_generation_state>>

\* an off-by-one despawn loop that leaves the last entity in place
despawn_all_but_last(store) ==
    [i \in 1..(Len(store) - 1) |-> [op |-> "despawn", entity |-> store[i].entity]]

\* the despawn commands of `for entity in query.iter()`
despawn_all(store) ==
    [i \in 1..Len(store) |-> [op |-> "despawn", entity |-> store[i].entity]]

\* the test written as `*interaction != Interaction::None`
reset_game_on_any_change ==
    /\ Runs("Update", "reset_game")
    /\ IF interaction.changed /\ interaction.value # "None"
       THEN /\ \E bits \in RngOutcomes(config) :
                  commands' = commands \o despawn_all(cells)
                                       \o spawn_grid(config, bits, next_entity)
            /\ next_entity' = next_entity + NumCells(config)
       ELSE UNCHANGED <<commands, next_entity>>
    /\ sysToRun' = sysToRun \ {"reset_game"}
    /\ UNCHANGED <<config, cells, timer, delta, interaction, schedule, panic, pc,
                   next_generation_state>>

\* reset_game: the ResetButton's Interaction, when Changed and Pressed,
\* despawns every GridCell entity and spawns a fresh grid
reset_game ==
    /\ Runs("Update", "reset_game")
    /\ IF interaction.changed /\ interaction.value = "Pressed"
       THEN IF spawn_grid_panics(config)
            THEN /\ panic' = "gen_bool"
                 /\ UNCHANGED <<commands, next_entity, sysToRun>>
            ELSE /\ \E bits \in RngOutcomes(config) :
                       commands' = commands \o despawn_all(cells)
                                            \o spawn_grid(config, bits, next_entity)
                 /\ next_entity' = next_entity + NumCells(config)
                 /\ sysToRun' = sysToRun \ {"reset_game"}
                 /\ panic' = panic
       ELSE /\ sysToRun' = sysToRun \ {"reset_game"}
            /\ UNCHANGED <<commands, next_entity, panic>>
    /\ UNCHANGED <<config, cells, timer, delta, interaction, schedule, pc,
                   next_generation_state>>

\* n generations in a row
RECURSIVE advance_times(_, _, _)
advance_times(cfg, store, n) ==
    IF n = 0 THEN store
    ELSE advance_times(cfg, write_back(store, compute_next_generation(cfg, store)), n - 1)

\* one generation for every interval the tick spans:
\* `for _ in 0..timer.0.times_finished_this_tick()`
update_grid_cell_catch_up ==
    /\ Runs("Update", "update_grid_cell")
    /\ timer' = timer_tick(timer, delta)
    /\ cells' = advance_times(config, cells, timer'.times_finished_this_tick)
    /\ sysToRun' = sysToRun \ {"update_grid_cell"}
    /\ UNCHANGED <<config, next_entity, commands, delta, interaction, schedule,
                   panic, pc, next_generation_state>>

\* update_grid_cell: tick the timer; when it just finished, compute the next
\* generation of every cell and then write it back
update_grid_cell ==
    /\ Runs("Update", "update_grid_cell")
    /\ timer' = timer_tick(timer, delta)
    /\ IF just_finished(timer')
       THEN IF unwrap_panics(config, cells)
            THEN /\ panic' = "unwrap"
                 /\ UNCHANGED <<cells, sysToRun>>
            ELSE /\ cells' = write_back(cells, compute_next_generation(config, cells))
                 /\ sysToRun' = sysToRun \ {"update_grid_cell"}
                 /\ panic' = panic
       ELSE /\ sysToRun' = sysToRun \ {"update_grid_cell"}
            /\ UNCHANGED <<cells, panic>>
    /\ UNCHANGED <<config, next_entity, commands, delta, interaction, schedule,
                   pc, next_generation_state>>

sprite_color(cell) == IF cell.is_alive THEN "WHITE" ELSE "BLACK"

\* update_grid_visuals: recolour the cells Changed since this system last ran
update_grid_visuals ==
    /\ Runs("Update", "update_grid_visuals")
    /\ cells' = [i \in 1..Len(cells) |->
                    IF cells[i].changed
                    THEN [cells[i] EXCEPT !.color = sprite_color(cells[i]),
                                          !.changed = FALSE]
                    ELSE cells[i]]
    /\ sysToRun' = sysToRun \ {"update_grid_visuals"}
    /\ UNCHANGED <<config, next_entity, commands, timer, delta, interaction,
                   schedule, panic, pc, next_generation_state>>

\* a press that respawns the grid is offered while entity ids remain
CanPress == next_entity <= MaxResets * NumCells(config)

\* the schedule has run all its systems: its Commands are applied, and the
\* next frame starts with a frame time and the button state the UI reports
apply_deferred(inters) ==
    /\ panic = "none"
    /\ sysToRun = {}
    /\ cells' = ApplyCommands(cells, commands)
    /\ commands' = <<>>
    /\ schedule' = "Update"
    /\ sysToRun' = UpdateSystems
    /\ delta' \in Deltas
    /\ \E v \in inters :
          /\ (v = "Pressed" /\ interaction.value # "Pressed") => CanPress
          /\ interaction' = [value |-> v,
                             changed |-> (schedule = "Startup" \/ v # interaction.value)]
    /\ UNCHANGED <<config, next_entity, timer, panic, pc, next_generation_state>>

Next ==
    \/ setup
    \/ update_grid_cell
    \/ update_grid_visuals
    \/ reset_game
    \/ apply_deferred(Interactions)

Spec == Init /\ [][Next]_vars

----------------------------------------------------------------------------
(* update_grid_cell run one loop iteration at a time *)

\* line 100: tick the timer and enter the first loop when it just finished
update_grid_cell_tick ==
    /\ Runs("Update", "update_grid_cell")
    /\ timer' = timer_tick(timer, delta)
    /\ IF just_finished(timer') /\ Len(cells) > 0
       THEN /\ pc' = [loop |-> "compute", i |-> 1]
            /\ sysToRun' = sysToRun
       ELSE /\ pc' = pc
            /\ sysToRun' = sysToRun \ {"update_grid_cell"}
    /\ next_generation_state' = <<>>
    /\ UNCHANGED <<config, cells, next_entity, commands, delta, interaction,
                   schedule, panic>>

\* a single-buffer pass: the value computed for a cell is stored at once
update_grid_cell_compute_in_place ==
    /\ panic = "none"
    /\ pc.loop = "compute"
    /\ next_generation_state' =
           Append(next_generation_state, pushed_state(config, cells, pc.i))
    /\ cells' = [cells EXCEPT ![pc.i] =
                     write_cell(@, pushed_state(config, cells, pc.i))]
    /\ pc' = IF pc.i < Len(cells)
             THEN [loop |-> "compute", i |-> pc.i + 1]
             ELSE [loop |-> "write", i |-> 1]
    /\ UNCHANGED <<config, next_entity, commands, timer, delta, interaction,
                   schedule, sysToRun, panic>>

\* lines 103-126: one iteration of `for cell in query.iter()`
update_grid_cell_compute ==
    /\ panic = "none"
    /\ pc.loop = "compute"
    /\ IF \E o \in Offsets : NthIsNone(cells, neighbor_index(config, cells[pc.i], o))
       THEN /\ panic' = "unwrap"
            /\ UNCHANGED <<next_generation_state, pc>>
       ELSE /\ next_generation_state' =
                   Append(next_generation_state, pushed_state(config, cells, pc.i))
            /\ pc' = IF pc.i < Len(cells)
                     THEN [loop |-> "compute", i |-> pc.i + 1]
                     ELSE [loop |-> "write", i |-> 1]
            /\ panic' = panic
    /\ UNCHANGED <<config, cells, next_entity, commands, timer, delta,
                   interaction, schedule, sysToRun>>

\* lines 128-130: one iteration of `for (i, mut cell) in query.iter_mut().enumerate()`
update_grid_cell_write ==
    /\ panic = "none"
    /\ pc.loop = "write"
    /\ cells' = [cells EXCEPT ![pc.i] = write_cell(@, next_generation_state[pc.i])]
    /\ IF pc.i < Len(cells)
       THEN /\ pc' = [loop |-> "write", i |-> pc.i + 1]
            /\ UNCHANGED <<next_generation_state, sysToRun>>
       ELSE /\ pc' = [loop |-> "idle", i |-> 0]
            /\ next_generation_state' = <<>>
            /\ sysToRun' = sysToRun \ {"update_grid_cell"}
    /\ UNCHANGED <<config, next_entity, commands, timer, delta, interaction,
                   schedule, panic>>

----------------------------------------------------------------------------
(* Specifications that start from a seeded grid, as Startup leaves it *)

\* the state in which the first frame starts, after setup's commands
Seeded(cfg, bits) ==
    /\ config = cfg
    /\ cells = ApplyCommands(<<>>, spawn_grid(cfg, bits, 0))
    /\ next_entity = NumCells(cfg)
    /\ commands = <<>>
    /\ timer = [elapsed |-> 0, times_finished_this_tick |-> 0]
    /\ delta \in Deltas
    /\ interaction = [value |-> "None", changed |-> TRUE]
    /\ schedule = "Update"
    /\ sysToRun = UpdateSystems
    /\ panic = "none"
    /\ pc = [loop |-> "idle", i |-> 0]
    /\ next_generation_state = <<>>

DefaultDensity == 3

\* every grid of at most MaxAdvanceCells cells and MaxAdvanceSide a side
InitAdvance ==
    \E w \in 1..MaxAdvanceSide, h \in 1..MaxAdvanceSide :
        /\ w * h <= MaxAdvanceCells
        /\ \E bits \in RngOutcomes(GameConfig(w, h, DefaultDensity)) :
              Seeded(GameConfig(w, h, DefaultDensity), bits)

SpecAdvance == InitAdvance /\ [][update_grid_cell]_vars

\* every grid of at most MaxLoopCells cells
InitLoop ==
    \E w \in 1..MaxLoopCells, h \in 1..MaxLoopCells :
        /\ w * h <= MaxLoopCells
        /\ \E bits \in RngOutcomes(GameConfig(w, h, DefaultDensity)) :
              Seeded(GameConfig(w, h, DefaultDensity), bits)

NextLoop ==
    \/ update_grid_cell_tick
    \/ update_grid_cell_compute
    \/ update_grid_cell_write

SpecLoop == InitLoop /\ [][NextLoop]_vars

\* gen_bool outcomes that seed exactly the coordinates in live
PatternBits(cfg, live) ==
    [k \in 1..NumCells(cfg) |-> <<LoopX(cfg, k), LoopY(cfg, k)>> \in live]

\* the 2x2 square with corner (a, b), wrapped
BlockAt(cfg, a, b) ==
    {<<(a + i) % cfg.width, (b + j) % cfg.height>> : i \in 0..1, j \in 0..1}

\* three cells in a row centred on (a, b), wrapped; o is "H" or "V"
BlinkerAt(cfg, a, b, o) ==
    IF o = "H"
    THEN {<<(a + i + cfg.width) % cfg.width, b>> : i \in -1..1}
    ELSE {<<a, (b + j + cfg.height) % cfg.height>> : j \in -1..1}

InitBlock ==
    \E w \in 4..MaxBlockDim, h \in 4..MaxBlockDim :
        \E a \in 0..(w - 1), b \in 0..(h - 1) :
            LET cfg == GameConfig(w, h, DefaultDensity)
            IN  Seeded(cfg, PatternBits(cfg, BlockAt(cfg, a, b)))

SpecBlock == InitBlock /\ [][update_grid_cell]_vars

InitBlinker ==
    \E w \in 5..MaxBlinkerDim, h \in 5..MaxBlinkerDim :
        \E a \in 0..(w - 1), b \in 0..(h - 1), o \in {"H", "V"} :
            LET cfg == GameConfig(w, h, DefaultDensity)
            IN  Seeded(cfg, PatternBits(cfg, BlinkerAt(cfg, a, b, o)))

SpecBlinker == InitBlinker /\ [][update_grid_cell]_vars

----------------------------------------------------------------------------
(* Vocabulary of the properties *)

\* the coordinates of the live cells
Alive(store) ==
    {<<store[i].x, store[i].y>> : i \in {j \in 1..Len(store) : store[j].is_alive}}

AllDead(store) == \A i \in 1..Len(store) : ~store[i].is_alive

\* the step is a run of update_grid_cell in which the timer just finished
AdvanceStep ==
    /\ "update_grid_cell" \in sysToRun
    /\ "update_grid_cell" \notin sysToRun'
    /\ just_finished(timer')

\* update_grid_cell has run in this frame and advanced the grid
Advanced ==
    /\ schedule = "Update"
    /\ "update_grid_cell" \notin sysToRun
    /\ just_finished(timer)
    /\ panic = "none"

\* live cells among the 8 toroidal neighbours of (x, y), one per offset
ToroidalNeighbors(cfg, live, x, y) ==
    Cardinality({o \in Offsets :
        <<(x + o[1] + cfg.width) % cfg.width,
          (y + o[2] + cfg.height) % cfg.height>> \in live})

\* the B3/S23 rule on the torus for the cell at (x, y)
ToroidalLife(cfg, live, x, y) ==
    LET n == ToroidalNeighbors(cfg, live, x, y)
    IN  \/ <<x, y>> \in live /\ n \in {2, 3}
        \/ <<x, y>> \notin live /\ n = 3

SameCoordinates(old, new) ==
    /\ Len(new) = Len(old)
    /\ \A i \in 1..Len(old) : new[i].x = old[i].x /\ new[i].y = old[i].y

----------------------------------------------------------------------------
(* Properties *)

\* C1: one generation advance is the toroidal B3/S23 step: every cell keeps
\* its coordinates and is alive afterwards iff the rule says so for its own
\* coordinates, counted in the grid as it was before the advance.
C1_AdvanceIsToroidalLife ==
    [][AdvanceStep =>
          /\ SameCoordinates(cells, cells')
          /\ \A i \in 1..Len(cells') :
                cells'[i].is_alive =
                    ToroidalLife(config, Alive(cells), cells'[i].x, cells'[i].y)]_vars

\* C2: within one advance no cell is written while the next state of some
\* cell is still to be computed, so every neighbour read sees the old grid.
C2_NoWriteBeforeAllComputed ==
    [][cells' # cells => Len(next_generation_state) = Len(cells)]_vars

\* C2 witness: the write loop is under way and a write that flips a cell is pending
C2_Witness ==
    /\ pc.loop = "write"
    /\ pc.i > 1
    /\ Len(cells) >= 4
    /\ \E j \in pc.i..Len(cells) : cells[j].is_alive # next_generation_state[j]
    /\ \E j \in 1..(pc.i - 1) : cells[j].is_alive

\* exactly one cell for every coordinate of the width x height rectangle
WellFormed(cfg, store) ==
    /\ Len(store) = cfg.width * cfg.height
    /\ \A x \in 0..(cfg.width - 1), y \in 0..(cfg.height - 1) :
          Cardinality({i \in 1..Len(store) : store[i].x = x /\ store[i].y = y}) = 1

\* C3: once the Startup commands are applied, and at every point of every
\* later frame, there is exactly one GridCell per coordinate of the
\* width x height rectangle, and width and height never change.
C3_OneCellPerCoordinate ==
    /\ [](schedule = "Update" => WellFormed(config, cells))
    /\ [][config' = config]_vars

\* C3 witness: a frame starts on a grid respawned by Reset, after timer ticks
C3_Witness ==
    /\ schedule = "Update"
    /\ sysToRun = UpdateSystems
    /\ commands = <<>>
    /\ NumCells(config) >= 3
    /\ config.width >= 2
    /\ cells[1].entity >= NumCells(config)
    /\ timer.elapsed > 0
    /\ \E i \in 1..Len(cells) : cells[i].is_alive

\* C4: an advance leaves every 2x2 block on a grid of at least 4x4 as it is.
C4_BlockIsStillLife ==
    [][(/\ AdvanceStep
        /\ config.width >= 4
        /\ config.height >= 4
        /\ \E a \in 0..(config.width - 1), b \in 0..(config.height - 1) :
              Alive(cells) = BlockAt(config, a, b))
       => /\ SameCoordinates(cells, cells')
          /\ \A i \in 1..Len(cells) : cells'[i].is_alive = cells[i].is_alive]_vars

OtherOrientation(o) == IF o = "H" THEN "V" ELSE "H"

\* C5: on a grid of at least 5x5 an advance turns every blinker by 90 degrees
\* about its centre, so two advances give back the original live cells.
C5_BlinkerHasPeriodTwo ==
    [][(AdvanceStep /\ config.width >= 5 /\ config.height >= 5)
       => \A a \in 0..(config.width - 1), b \in 0..(config.height - 1),
             o \in {"H", "V"} :
                Alive(cells) = BlinkerAt(config, a, b, o)
                => Alive(cells') = BlinkerAt(config, a, b, OtherOrientation(o))]_vars

\* the step applies the commands of a Reset press
RespawnStep == sysToRun = {} /\ commands # <<>>

\* C6: a grid whose cells are all dead stays all dead through every step
\* (advances included) until the commands of a Reset are applied.
C6_AllDeadIsAbsorbing ==
    [][(Len(cells) >= 1 /\ AllDead(cells) /\ ~RespawnStep) => AllDead(cells')]_vars

\* C6 witness: an advance has run on a grid seeded all dead
C6_Witness ==
    /\ Advanced
    /\ config.initial_dencity = 0
    /\ Len(cells) >= 3
    /\ AllDead(cells)

\* the 8 coordinate pairs the advance loop computes for a cell
NeighborCoords(cfg, cell) ==
    {<<neighbor_nx(cfg, cell, o), neighbor_ny(cfg, cell, o)>> : o \in Offsets}

\* C7: with width and height at least 3 the loop computes, for every cell,
\* ((x+dx) mod width, (y+dy) mod height) with the non-negative modulo: 8
\* distinct in-range pairs, none the cell itself, edges wrapping around.
C7_EightDistinctWrappedNeighbors ==
    (config.width >= 3 /\ config.height >= 3) =>
        \A i \in 1..Len(cells) :
            LET c == cells[i]
                w == config.width
                h == config.height
            IN  /\ \A o \in Offsets :
                      /\ neighbor_nx(config, c, o) = (c.x + o[1] + w) % w
                      /\ neighbor_ny(config, c, o) = (c.y + o[2] + h) % h
                /\ Cardinality(NeighborCoords(config, c)) = 8
                /\ NeighborCoords(config, c) \subseteq (0..(w - 1)) \X (0..(h - 1))
                /\ <<c.x, c.y>> \notin NeighborCoords(config, c)
                /\ c.x = 0 => neighbor_nx(config, c, <<-1, 0>>) = w - 1
                /\ c.x = w - 1 => neighbor_nx(config, c, <<1, 0>>) = 0
                /\ c.y = 0 => neighbor_ny(config, c, <<0, -1>>) = h - 1
                /\ c.y = h - 1 => neighbor_ny(config, c, <<0, 1>>) = 0

\* C7 witness: an advance has run on a non-square grid of at least 3x3
C7_Witness ==
    /\ Advanced
    /\ config.width >= 3
    /\ config.height >= 3
    /\ config.width # config.height
    /\ \E i \in 1..Len(cells) : cells[i].x = 0 /\ cells[i].y = config.height - 1

\* C8: on a grid of width*height cells with width, height >= 1 every lookup
\* position ny*width+nx is below width*height, and no unwrap ever panics.
C8_AdvanceCannotFail ==
    /\ panic # "unwrap"
    /\ (/\ schedule = "Update"
        /\ config.width >= 1
        /\ config.height >= 1
        /\ Len(cells) = config.width * config.height)
       => \A i \in 1..Len(cells) : \A o \in Offsets :
             /\ neighbor_index(config, cells[i], o) \in 0..(config.width * config.height - 1)
             /\ ~NthIsNone(cells, neighbor_index(config, cells[i], o))

\* C8 witness: an advance has run on a non-square grid respawned by Reset
C8_Witness ==
    /\ Advanced
    /\ NumCells(config) >= 3
    /\ config.width # config.height
    /\ cells[1].entity >= NumCells(config)

\* C9: with width = 0 or height = 0 construction fails: setup does not
\* complete normally with an empty set of cells.
C9_ZeroDimensionsFail ==
    ((config.width = 0 \/ config.height = 0) /\ "setup" \notin sysToRun)
        => panic # "none"

\* C10: a density outside [0,1] is reported as an error value, not a panic,
\* and nothing is mutated: no command is queued and no cell is created.
C10_InvalidDensityIsAnError ==
    GenBoolPanics(config.initial_dencity)
        => (panic = "none" /\ commands = <<>> /\ cells = <<>>)

AllAlive(store) == \A i \in 1..Len(store) : store[i].is_alive

\* C11: the grid that the commands of a seeding (setup or Reset) leave is
\* all dead when the density is 0.0 and all alive when it is 1.0.
C11_DensityZeroAndOne ==
    [][RespawnStep =>
          /\ config.initial_dencity = 0 =>
                (Len(cells') = NumCells(config) /\ AllDead(cells'))
          /\ config.initial_dencity = DensityOne =>
                (Len(cells') = NumCells(config) /\ AllAlive(cells'))]_vars

\* C11 witness: a frame starts on a grid that Reset seeded with density 1.0
C11_Witness ==
    /\ schedule = "Update"
    /\ sysToRun = UpdateSystems
    /\ config.initial_dencity = DensityOne
    /\ Len(cells) >= 3
    /\ cells[1].entity >= NumCells(config)
    /\ AllAlive(cells)

\* copies of a grid: the same is_alive at every coordinate, in entities of
\* their own, their sprites all BLACK, all WHITE or showing the cells, marked
\* changed or not
IndependentCopies(store) ==
    {[i \in 1..Len(store) |->
         [store[i] EXCEPT !.entity = @ + Len(store),
                          !.color = IF col = "shown" THEN sprite_color(store[i]) ELSE col,
                          !.changed = ch]] :
        col \in {"BLACK", "WHITE", "shown"}, ch \in BOOLEAN}

IsSpawn(cmd) == cmd.op = "spawn"

\* the spawn commands among cmds, in order
SpawnCommands(cmds) == SelectSeq(cmds, IsSpawn)

\* C13: seeding is reproducible from what the caller supplies: a seeding with
\* the same width, height and density queues the same cells, whichever values
\* the generator would draw (the caller hands spawn_grid no generator state).
C13_SeedingIsReproducible ==
    [][commands' # commands =>
          \A bits \in RngOutcomes(config) :
              SpawnCommands(commands') = spawn_grid(config, bits, next_entity)]_vars

\* C14: an advance keeps every entity, in place, with its x, y and sprite,
\* and in every step an entity that exists before and after keeps its x and y.
C14_AdvanceWritesOnlyIsAlive ==
    [][/\ \A i \in 1..Len(cells), j \in 1..Len(cells') :
             cells[i].entity = cells'[j].entity =>
                 (cells'[j].x = cells[i].x /\ cells'[j].y = cells[i].y)
       /\ AdvanceStep =>
             /\ Len(cells') = Len(cells)
             /\ \A i \in 1..Len(cells) :
                   /\ cells'[i].entity = cells[i].entity
                   /\ cells'[i].x = cells[i].x
                   /\ cells'[i].y = cells[i].y
                   /\ cells'[i].color = cells[i].color]_vars

\* C14 witness: an advance has run on a respawned grid with a cell off the origin
C14_Witness ==
    /\ Advanced
    /\ Len(cells) >= 3
    /\ cells[1].entity >= NumCells(config)
    /\ \E i \in 1..Len(cells) : cells[i].x + cells[i].y >= 2
    /\ \E i \in 1..Len(cells) : cells[i].is_alive

\* C15: in the store that spawn_grid fills, the cell at position ny*width+nx
\* (the position the advance reads for (nx, ny)) has x = nx and y = ny.
C15_StoreAddressedByYTimesWidthPlusX ==
    (schedule = "Update" /\ Len(cells) = NumCells(config)) =>
        \A nx \in 0..(config.width - 1), ny \in 0..(config.height - 1) :
            /\ cells[ny * config.width + nx + 1].x = nx
            /\ cells[ny * config.width + nx + 1].y = ny

\* the step is a run of reset_game
ResetGameStep ==
    /\ "reset_game" \in sysToRun
    /\ "reset_game" \notin sysToRun'

\* C16: applying the commands of a Reset leaves none of the old entities and
\* exactly the width*height cells reset_game seeded, with the is_alive it drew,
\* whatever the other systems did to the old cells in that frame; a run of
\* reset_game without a changed Pressed queues nothing, and the end of a
\* frame with nothing queued leaves every cell as it is.
C16_ResetReplacesGridWholesale ==
    [][/\ (schedule = "Update" /\ RespawnStep) =>
             /\ \A i \in 1..Len(cells), j \in 1..Len(cells') :
                   cells[i].entity # cells'[j].entity
             /\ Len(cells') = NumCells(config)
             /\ Len(SpawnCommands(commands)) = NumCells(config)
             /\ \A k \in 1..Len(cells') :
                   /\ cells'[k].entity = SpawnCommands(commands)[k].entity
                   /\ cells'[k].x = SpawnCommands(commands)[k].cell.x
                   /\ cells'[k].y = SpawnCommands(commands)[k].cell.y
                   /\ cells'[k].is_alive = SpawnCommands(commands)[k].cell.is_alive
       /\ (ResetGameStep /\ ~(interaction.changed /\ interaction.value = "Pressed")) =>
             (commands' = commands /\ cells' = cells)
       /\ (schedule = "Update" /\ sysToRun = {} /\ commands = <<>>) =>
             cells' = cells]_vars

\* C16 witness: a frame starts on the grid of a Reset that was pressed in a
\* frame in which the timer finished and the old grid advanced
C16_Witness ==
    /\ schedule = "Update"
    /\ sysToRun = UpdateSystems
    /\ Len(cells) >= 3
    /\ cells[1].entity >= NumCells(config)
    /\ just_finished(timer)
    /\ config.initial_dencity = DefaultDensity
    /\ \E i \in 1..Len(cells) : cells[i].is_alive

\* C17: every cell is read through 8 offsets; with a dimension of 1 one of
\* them reads the cell itself, with a dimension of 2 two of them read the
\* same cell; a live 1x1 grid and an all-alive 2x2 grid count 8 for every
\* cell and are all dead after one advance.
C17_NeighboursCountedWithMultiplicity ==
    /\ [](/\ Cardinality(Offsets) = 8
          /\ \A i \in 1..Len(cells) :
                /\ (config.width = 1 \/ config.height = 1) =>
                      \E o \in Offsets : neighbor_index(config, cells[i], o) + 1 = i
                /\ (config.width = 2 \/ config.height = 2) =>
                      \E o1 \in Offsets, o2 \in Offsets :
                          /\ o1 # o2
                          /\ neighbor_index(config, cells[i], o1) =
                                 neighbor_index(config, cells[i], o2))
    /\ [][AdvanceStep =>
             /\ (config.width = 1 /\ config.height = 1 /\ AllAlive(cells)) =>
                   /\ number_of_neighbor_alive(config, cells, 1) = 8
                   /\ AllDead(cells')
             /\ (config.width = 2 /\ config.height = 2 /\ AllAlive(cells)) =>
                   /\ \A i \in 1..Len(cells) :
                         number_of_neighbor_alive(config, cells, i) = 8
                   /\ AllDead(cells')]_vars

\* C17 witness: an advance has run on a 2x2 grid and left it all dead
C17_Witness ==
    /\ Advanced
    /\ config.width = 2
    /\ config.height = 2
    /\ AllDead(cells)

\* the step is a run of update_grid_cell
UpdateGridCellStep ==
    /\ "update_grid_cell" \in sysToRun
    /\ "update_grid_cell" \notin sysToRun'

SameIsAlive(old, new) ==
    /\ Len(new) = Len(old)
    /\ \A i \in 1..Len(old) : new[i].is_alive = old[i].is_alive

\* C18: the run of update_grid_cell in a frame whose time does not complete
\* the interval leaves every cell as it is; in a frame whose time completes
\* it, once or several times over, it applies one generation; no other step
\* of a frame changes is_alive (the cells of a Reset aside).
C18_OneGenerationPerFinishedTick ==
    [][/\ (UpdateGridCellStep /\ timer.elapsed + delta < update_interval_millis) =>
             (~just_finished(timer') /\ cells' = cells)
       /\ (UpdateGridCellStep /\ timer.elapsed + delta >= update_interval_millis) =>
             /\ just_finished(timer')
             /\ cells' = write_back(cells, compute_next_generation(config, cells))
       /\ (schedule = "Update" /\ ~UpdateGridCellStep /\ ~RespawnStep) =>
             SameIsAlive(cells, cells')]_vars

\* C18 witness: one run of update_grid_cell has spanned two intervals
C18_Witness ==
    /\ Advanced
    /\ timer.times_finished_this_tick >= 2
    /\ Len(cells) >= 3
    /\ \E i \in 1..Len(cells) : cells[i].is_alive

\* the sprite does not show the cell's is_alive
Stale(cell) == cell.color # sprite_color(cell)

\* the step is a run of update_grid_visuals
VisualsStep ==
    /\ "update_grid_visuals" \in sysToRun
    /\ "update_grid_visuals" \notin sysToRun'

\* C19: a run of update_grid_visuals leaves every sprite WHITE iff its cell
\* is alive, freshly spawned cells included; a sprite that does not show its
\* cell is always marked for the next run, and once update_grid_visuals has
\* run in a frame only that frame's advance can have outdated a sprite, so
\* the run of the following frame shows the change.
C19_SpritesFollowWithinOneFrame ==
    /\ [](\A i \in 1..Len(cells) : Stale(cells[i]) => cells[i].changed)
    /\ []((/\ schedule = "Update"
           /\ "update_grid_visuals" \notin sysToRun
           /\ \E i \in 1..Len(cells) : Stale(cells[i]))
          => ("update_grid_cell" \notin sysToRun /\ just_finished(timer)))
    /\ [][VisualsStep =>
             /\ pc.loop = "idle"
             /\ SameIsAlive(cells, cells')
             /\ \A i \in 1..Len(cells') : ~Stale(cells'[i])]_vars

\* C19 witness: on a respawned grid update_grid_visuals has run and the
\* advance that ran after it in the same frame has outdated one sprite
C19_Witness ==
    /\ schedule = "Update"
    /\ "update_grid_visuals" \notin sysToRun
    /\ Len(cells) >= 3
    /\ cells[1].entity >= NumCells(config)
    /\ \E i \in 1..Len(cells) :
          cells[i].is_alive /\ cells[i].color = "WHITE"
    /\ \E i \in 1..Len(cells) : Stale(cells[i])

====
